---- MODULE Spec2Model ----
(***************************************************************************)
(* A model of the weird-c compiler pipeline (src/src/main.ts and its       *)
(* lib/ helpers): parser, free-variable analysis, substitution, closure    *)
(* conversion, code generation, and the State / Context helper objects.    *)
(*                                                                         *)
(* Representation notes.                                                   *)
(*  - Tree / Expr / Topl / Token values are records carrying the source's  *)
(*    `tag` field.  A numeric payload is kept in a field `num` (Num.data   *)
(*    and NUMBER.value in the source) so that numbers and names never      *)
(*    share a field.                                                       *)
(*  - JavaScript Set<string> values are sequences without duplicates, in   *)
(*    insertion order (Array.from(set) observes that order).               *)
(*  - A JavaScript Map<Key, T> is a function from its key set.             *)
(*  - Generated C text is a sequence of text fragments; concatenating the  *)
(*    fragments gives the text the source builds.                          *)
(***************************************************************************)
EXTENDS Integers, Sequences, FiniteSets, TLC

(***************************************************************************)
(* Bounds of the model.                                                    *)
(***************************************************************************)
MaxNodes == 6

MaxToks == 3

MaxArgs == 3

MaxStates == 3

MaxDraws == 5

\* Nodes of each tree of a sequence of two convertCls calls.
MaxAgain == MaxNodes \div 2

\* Characters of a source text of ScanInputs.
MaxChars == 3

\* Calls of hoisted functions in one run of a generated program.
MaxCalls == 6

Names == {"x", "y"}

Nums == {5}

(***************************************************************************)
(* Generic helpers for sequences and maps.                                 *)
(***************************************************************************)
Range(s) == {s[i] : i \in 1..Len(s)}

InSeq(s, x) == \E i \in 1..Len(s) : s[i] = x

RECURSIVE SetSeq(_)
SetSeq(s) ==
  IF s = <<>> THEN <<>>
  ELSE LET front == SetSeq(SubSeq(s, 1, Len(s) - 1))
           last == s[Len(s)]
       IN IF InSeq(front, last) THEN front ELSE Append(front, last)

Without(s, x) == SelectSeq(s, LAMBDA e : e # x)

RECURSIVE Flatten(_)
Flatten(ss) == IF ss = <<>> THEN <<>> ELSE Head(ss) \o Flatten(Tail(ss))

EmptyMap == [k \in {} |-> k]

MapSet(m, k, v) == [x \in (DOMAIN m) \cup {k} |-> IF x = k THEN v ELSE m[x]]

MapDelete(m, k) == [x \in (DOMAIN m) \ {k} |-> m[x]]

(***************************************************************************)
(* Tree: the surface AST (main.ts 12-24).                                  *)
(***************************************************************************)
Num(data) == [tag |-> "Num", num |-> data]

Var(data) == [tag |-> "Var", data |-> data]

Lam(prop, body) == [tag |-> "Lam", prop |-> prop, body |-> body]

App(func, argm) == [tag |-> "App", func |-> func, argm |-> argm]

Let(name, bind, body) == [tag |-> "Let", name |-> name, bind |-> bind, body |-> body]

(***************************************************************************)
(* free (main.ts 329-348).  The result is the Set in insertion order.      *)
(***************************************************************************)
RECURSIVE free(_)
free(tree) ==
  CASE tree.tag = "Var" -> <<tree.data>>
    [] tree.tag = "Num" -> <<>>
    [] tree.tag = "Lam" -> Without(free(tree.body), tree.prop)
    [] tree.tag = "App" -> SetSeq(free(tree.func) \o free(tree.argm))
    [] tree.tag = "Let" ->
         LET freeBind == free(tree.bind)
             freeExpr == Without(freeBind, tree.name)
             freeBody == free(tree.body)
         IN SetSeq(freeExpr \o freeBody)

(***************************************************************************)
(* Expr and Topl (main.ts 350-383).                                        *)
(***************************************************************************)
ERef(data) == [tag |-> "Ref", data |-> data]

ENum(data) == [tag |-> "Num", num |-> data]

EIdx(data, idx) == [tag |-> "Idx", data |-> data, idx |-> idx]

ECls(prop, body) == [tag |-> "Cls", prop |-> prop, body |-> body]

EApp(func, argm) == [tag |-> "App", func |-> func, argm |-> argm]

ELet(name, bind, body) == [tag |-> "Let", name |-> name, bind |-> bind, body |-> body]

TMain(expr) == [tag |-> "Main", expr |-> expr]

TDecl(fr, name, env, prop, body) ==
  [tag |-> "Decl", free |-> fr, name |-> name, env |-> env, prop |-> prop, body |-> body]

(***************************************************************************)
(* State (lib/state): one mutable object.  next() increments the           *)
(* receiver's curr and returns the pair (curr, this).  A State value of    *)
(* the model is the content of the object; `log` is a history field that   *)
(* records the integers the object has handed out.                         *)
(***************************************************************************)
makeState == [curr |-> 0, log |-> <<>>]

\* next that hands out curr + 1 and forgets to store it.
next_stale(this) ==
  LET curr == this.curr + 1
  IN [val |-> curr, state |-> [curr |-> this.curr, log |-> Append(this.log, curr)]]

next(this) ==
  LET curr == this.curr + 1
  IN [val |-> curr, state |-> [curr |-> curr, log |-> Append(this.log, curr)]]

(***************************************************************************)
(* Context (lib/context).  The source tree holds two implementations:      *)
(*  "proto"   : Object.create(contextProto); every context reads and       *)
(*              writes the one Map stored on the prototype;                *)
(*  "closure" : each makeContext call owns a new Map.                      *)
(* In both, del and set change the Map in place and return the context.    *)
(* makeContext returns the Map the new context uses and the content of     *)
(* the prototype's Map after the call.                                     *)
(***************************************************************************)
Impls == {"proto", "closure"}

RECURSIVE SetAll(_, _)
SetAll(map, entries) ==
  IF entries = <<>> THEN map
  ELSE SetAll(MapSet(map, Head(entries)[1], Head(entries)[2]), Tail(entries))

makeContext(impl, proto, entries) ==
  IF impl = "proto"
  THEN LET shared == SetAll(proto, entries) IN [map |-> shared, proto |-> shared]
  ELSE [map |-> SetAll(EmptyMap, entries), proto |-> proto]

ContextGet(map, key) ==
  IF key \in DOMAIN map THEN [tag |-> "Some", value |-> map[key]] ELSE [tag |-> "None"]

ContextDel(map, key) == MapDelete(map, key)

(***************************************************************************)
(* substitute (main.ts 385-421).  The Map is changed in place by del, so   *)
(* every case returns the new expression and the Map as the call leaves    *)
(* it.                                                                     *)
(***************************************************************************)
substituteRef(map, data) ==
  LET opt == ContextGet(map, data)
  IN [expr |-> IF opt.tag = "Some" THEN opt.value ELSE ERef(data), map |-> map]

RECURSIVE substitute(_, _)
RECURSIVE substituteAll(_, _)
substituteAll(map, body) ==
  IF body = <<>> THEN [exprs |-> <<>>, map |-> map]
  ELSE LET first == substitute(map, Head(body))
           rest == substituteAll(first.map, Tail(body))
       IN [exprs |-> <<first.expr>> \o rest.exprs, map |-> rest.map]

substituteLet(map, name, bind, body) ==
  LET newBind == substitute(map, bind)
      newBody == substitute(ContextDel(newBind.map, name), body)
  IN [expr |-> ELet(name, newBind.expr, newBody.expr), map |-> newBody.map]

substituteCls(map, prop, body) ==
  LET newBody == substituteAll(map, body)
  IN [expr |-> ECls(prop, newBody.exprs), map |-> newBody.map]

substituteApp(map, func, argm) ==
  LET newArgm == substitute(map, argm)
  IN [expr |-> EApp(func, newArgm.expr), map |-> newArgm.map]

substitute(map, expr) ==
  CASE expr.tag = "Num" -> [expr |-> ENum(expr.num), map |-> map]
    [] expr.tag = "Idx" -> [expr |-> EIdx(expr.data, expr.idx), map |-> map]
    [] expr.tag = "Ref" -> substituteRef(map, expr.data)
    [] expr.tag = "Cls" -> substituteCls(map, expr.prop, expr.body)
    [] expr.tag = "App" -> substituteApp(map, expr.func, expr.argm)
    [] expr.tag = "Let" -> substituteLet(map, expr.name, expr.bind, expr.body)

(***************************************************************************)
(* convert (main.ts 423-491).  A Converted value is the source's           *)
(* [Prog, [Expr, State]] and, with it, the content of the prototype's Map  *)
(* after the call.                                                         *)
(***************************************************************************)
Converted(prog, expr, state, proto) ==
  [prog |-> prog, expr |-> expr, state |-> state, proto |-> proto]

convertNum(state, proto, data) == Converted(<<>>, ENum(data), state, proto)

convertVar(state, proto, data) == Converted(<<>>, ERef(data), state, proto)

RECURSIVE convert(_, _, _, _)
\* convertLam that puts its own Decl before those of its body.
convertLam_declFirst(impl, state0, proto0, prop, body) ==
  LET n1 == next(state0)
      n2 == next(n1.state)
      i == n1.val
      j == n2.val
      lam == Lam(prop, body)
      fvs == free(lam)
      env == "env" \o ToString(i)
      cls == "cls" \o ToString(j)
      sub == makeContext(impl, proto0, [idx \in 1..Len(fvs) |-> <<fvs[idx], EIdx(env, idx - 1)>>])
      inner == convert(impl, n2.state, sub.proto, body)
      bd == substitute(IF impl = "proto" THEN inner.proto ELSE sub.map, inner.expr)
      code == TDecl(Len(fvs), cls, env, prop, bd.expr)
      refs == [k \in 1..Len(fvs) |-> ERef(fvs[k])]
      clos == ECls(cls, refs)
  IN Converted(<<code>> \o inner.prog, clos, inner.state,
               IF impl = "proto" THEN bd.map ELSE inner.proto)

convertLam(impl, state0, proto0, prop, body) ==
  LET n1 == next(state0)
      n2 == next(n1.state)
      i == n1.val
      j == n2.val
      lam == Lam(prop, body)
      fvs == free(lam)
      env == "env" \o ToString(i)
      cls == "cls" \o ToString(j)
      sub == makeContext(impl, proto0, [idx \in 1..Len(fvs) |-> <<fvs[idx], EIdx(env, idx - 1)>>])
      inner == convert(impl, n2.state, sub.proto, body)
      bd == substitute(IF impl = "proto" THEN inner.proto ELSE sub.map, inner.expr)
      code == TDecl(Len(fvs), cls, env, prop, bd.expr)
      refs == [k \in 1..Len(fvs) |-> ERef(fvs[k])]
      clos == ECls(cls, refs)
  IN Converted(Append(inner.prog, code), clos, inner.state,
               IF impl = "proto" THEN bd.map ELSE inner.proto)

\* convertApp that concatenates the argument's declarations first.
convertApp_argFirst(impl, state0, proto0, func, argm) ==
  LET f == convert(impl, state0, proto0, func)
      n == next(f.state)
      nextVar == "_" \o ToString(n.val)
      a == convert(impl, n.state, f.proto, argm)
      value == ELet(nextVar, f.expr, EApp(nextVar, a.expr))
  IN Converted(a.prog \o f.prog, value, a.state, a.proto)

convertApp(impl, state0, proto0, func, argm) ==
  LET f == convert(impl, state0, proto0, func)
      n == next(f.state)
      nextVar == "_" \o ToString(n.val)
      a == convert(impl, n.state, f.proto, argm)
      value == ELet(nextVar, f.expr, EApp(nextVar, a.expr))
  IN Converted(f.prog \o a.prog, value, a.state, a.proto)

convertLet(impl, state0, proto0, name, bind, body) ==
  LET b == convert(impl, state0, proto0, bind)
      c == convert(impl, b.state, b.proto, body)
  IN Converted(b.prog \o c.prog, ELet(name, b.expr, c.expr), c.state, c.proto)

convert(impl, state, proto, tree) ==
  CASE tree.tag = "Num" -> convertNum(state, proto, tree.num)
    [] tree.tag = "Var" -> convertVar(state, proto, tree.data)
    [] tree.tag = "Lam" -> convertLam(impl, state, proto, tree.prop, tree.body)
    [] tree.tag = "App" -> convertApp(impl, state, proto, tree.func, tree.argm)
    [] tree.tag = "Let" -> convertLet(impl, state, proto, tree.name, tree.bind, tree.body)

convertCls(impl, proto, tree) ==
  LET r == convert(impl, makeState, proto, tree)
  IN [prog |-> Append(r.prog, TMain(r.expr)), state |-> r.state, proto |-> r.proto]

(***************************************************************************)
(* Token (main.ts 37-49).                                                  *)
(***************************************************************************)
NUMBER(value) == [tag |-> "NUMBER", num |-> value]

SYMBOL(value) == [tag |-> "SYMBOL", value |-> value]

Tok(tag) == [tag |-> tag]

(***************************************************************************)
(* scanner (main.ts 51-159).  The source text is a sequence of             *)
(* one-character strings; positions are the source's 0-based positions.    *)
(***************************************************************************)
Digits == {"0", "1", "2", "3", "4", "5", "6", "7", "8", "9"}

Letters ==
  {"a", "b", "c", "d", "e", "f", "g", "h", "i", "j", "k", "l", "m", "n", "o", "p", "q", "r",
   "s", "t", "u", "v", "w", "x", "y", "z",
   "A", "B", "C", "D", "E", "F", "G", "H", "I", "J", "K", "L", "M", "N", "O", "P", "Q", "R",
   "S", "T", "U", "V", "W", "X", "Y", "Z"}

isDigit(char) == char \in Digits

isAlpha(char) == char \in Letters \/ char = "_"

isAlphaNumeric(char) == isAlpha(char) \/ isDigit(char)

\* peek() and peekNext(): "\0" past the end of the text.
charPeek(source, pos) == IF pos >= Len(source) THEN "\\0" ELSE source[pos + 1]

charPeekNext(source, pos) == IF pos + 1 >= Len(source) THEN "\\0" ELSE source[pos + 2]

\* while (isDigit(peek())) advance();
RECURSIVE skipDigits(_, _)
skipDigits(source, pos) ==
  IF isDigit(charPeek(source, pos)) THEN skipDigits(source, pos + 1) ELSE pos

\* while (isAlphaNumeric(peek())) advance();
RECURSIVE skipAlphaNumeric(_, _)
skipAlphaNumeric(source, pos) ==
  IF isAlphaNumeric(charPeek(source, pos)) THEN skipAlphaNumeric(source, pos + 1) ELSE pos

\* source.substring(from, to) as one string.
RECURSIVE substring(_, _, _)
substring(source, from, to) ==
  IF from >= to THEN "" ELSE source[from + 1] \o substring(source, from + 1, to)

DigitValue(char) ==
  CASE char = "0" -> 0 [] char = "1" -> 1 [] char = "2" -> 2 [] char = "3" -> 3
    [] char = "4" -> 4 [] char = "5" -> 5 [] char = "6" -> 6 [] char = "7" -> 7
    [] char = "8" -> 8 [] char = "9" -> 9

\* parseInt of the lexeme source[from .. to-1], which starts with a digit:
\* the decimal value of its leading digits; what follows them is ignored.
RECURSIVE parseIntFrom(_, _, _, _)
parseIntFrom(source, pos, to, acc) ==
  IF pos < to /\ isDigit(source[pos + 1])
  THEN parseIntFrom(source, pos + 1, to, 10 * acc + DigitValue(source[pos + 1]))
  ELSE acc

\* parseInt that leaves out the first character of the lexeme.
parseInt_fromSecond(source, from, to) == parseIntFrom(source, from + 1, to, 0)

parseInt(source, from, to) == parseIntFrom(source, from, to, 0)

\* number() that takes a "." into the lexeme whatever follows it.
number_anyDot(source, start_pos, current_pos) ==
  LET whole == skipDigits(source, current_pos)
      end == IF charPeek(source, whole) = "."
             THEN skipDigits(source, whole + 1)
             ELSE whole
  IN [current_pos |-> end, token |-> NUMBER(parseInt(source, start_pos, end))]

\* number(): the end position and the token.
number(source, start_pos, current_pos) ==
  LET whole == skipDigits(source, current_pos)
      end == IF charPeek(source, whole) = "." /\ isDigit(charPeekNext(source, whole))
             THEN skipDigits(source, whole + 1)
             ELSE whole
  IN [current_pos |-> end, token |-> NUMBER(parseInt(source, start_pos, end))]

keywords(value) ==
  CASE value = "fun" -> Tok("FUN")
    [] value = "let" -> Tok("LET")
    [] OTHER -> [tag |-> "undefined"]

\* identifier(): the end position and the token.
identifier(source, start_pos, current_pos) ==
  LET end == skipAlphaNumeric(source, current_pos)
      value == substring(source, start_pos, end)
      token == keywords(value)
  IN [current_pos |-> end,
      token |-> IF token.tag = "undefined" THEN SYMBOL(value) ELSE token]

\* The while loop of scanTokens from current_pos on, with the tokens pushed
\* so far.
RECURSIVE scanLoop(_, _, _)
scanLoop(source, current_pos, toks) ==
  IF ~(current_pos < Len(source)) THEN [ok |-> TRUE, tokens |-> Append(toks, Tok("EOF"))]
  ELSE
    LET start_pos == current_pos
        char == source[current_pos + 1]
        after == current_pos + 1
    IN CASE char \in {" ", "\r", "\n", "\t"} -> scanLoop(source, after, toks)
         [] char = "(" -> scanLoop(source, after, Append(toks, Tok("LPAREN")))
         [] char = ")" -> scanLoop(source, after, Append(toks, Tok("RPAREN")))
         [] char = "=" ->
              IF charPeek(source, after) = ">" /\ after < Len(source)
              THEN scanLoop(source, after + 1, Append(toks, Tok("ARROW")))
              ELSE scanLoop(source, after, Append(toks, Tok("EQUAL")))
         [] char = ";" -> scanLoop(source, after, Append(toks, Tok("SEMICOLON")))
         [] char = "," -> scanLoop(source, after, Append(toks, Tok("COMMA")))
         [] OTHER ->
              IF isDigit(char)
              THEN LET n == number(source, start_pos, after)
                   IN scanLoop(source, n.current_pos, Append(toks, n.token))
              ELSE IF isAlpha(char)
              THEN LET id == identifier(source, start_pos, after)
                   IN scanLoop(source, id.current_pos, Append(toks, id.token))
              ELSE [ok |-> FALSE, error |-> "Unexpected character", char |-> char]

scanTokens(source) == scanLoop(source, 0, <<>>)

scanner(source) == scanTokens(source)

(***************************************************************************)
(* parser (main.ts 163-327).  `current` is the source's 0-based cursor.    *)
(* A thrown Error is the result [ok |-> FALSE]; a returned value is        *)
(* [ok |-> TRUE, ..., current |-> cursor after the call].  Token lists     *)
(* given to the parser end with EOF, and advance never moves past EOF, so  *)
(* tokens.at(current) is always defined.                                   *)
(***************************************************************************)
Thrown(msg) == [ok |-> FALSE, error |-> msg]

peek(tokens, current) == tokens[current + 1]

isAtEnd(tokens, current) == peek(tokens, current).tag = "EOF"

check(tokens, current, tag) ==
  IF isAtEnd(tokens, current) THEN FALSE ELSE peek(tokens, current).tag = tag

advance(tokens, current) == IF ~isAtEnd(tokens, current) THEN current + 1 ELSE current

matchToken(tokens, current, tag) ==
  IF check(tokens, current, tag)
  THEN [matched |-> TRUE, current |-> advance(tokens, current)]
  ELSE [matched |-> FALSE, current |-> current]

isToken(tag, token) == token.tag = tag

\* JavaScript's `!expectedValue` for the values a consume callback returns:
\* a number is falsy when it is 0, a string when it is empty, a token
\* object never.
Falsy(tag, value) ==
  CASE tag = "NUMBER" -> value = 0
    [] tag = "SYMBOL" -> value = ""
    [] OTHER -> FALSE

consume(tokens, current, tag, expectedValue) ==
  IF Falsy(tag, expectedValue) THEN Thrown("Parser error")
  ELSE [ok |-> TRUE, value |-> expectedValue, current |-> advance(tokens, current)]

consumeToken(tokens, current, tag) ==
  LET token == peek(tokens, current)
  IN IF ~isToken(tag, token) THEN Thrown("Expected token")
     ELSE consume(tokens, current, tag,
                  CASE tag = "NUMBER" -> token.num
                    [] tag = "SYMBOL" -> token.value
                    [] OTHER -> token)

Parsed(tree, current) == [ok |-> TRUE, tree |-> tree, current |-> current]

parseNumber(tokens, current) ==
  LET n == consumeToken(tokens, current, "NUMBER")
  IN IF n.ok THEN Parsed(Num(n.value), n.current) ELSE n

parseSymbol(tokens, current) ==
  LET s == consumeToken(tokens, current, "SYMBOL")
  IN IF s.ok THEN Parsed(Var(s.value), s.current) ELSE s

RECURSIVE reduceApp(_, _)
reduceApp(func, args) ==
  IF args = <<>> THEN func ELSE reduceApp(App(func, Head(args)), Tail(args))

RECURSIVE expression(_, _)
RECURSIVE parseCallLoop(_, _, _, _)

parseParens(tokens, current) ==
  LET l == consumeToken(tokens, current, "LPAREN")
  IN IF ~l.ok THEN l
     ELSE LET value == expression(tokens, l.current)
          IN IF ~value.ok THEN value
             ELSE LET r == consumeToken(tokens, value.current, "RPAREN")
                  IN IF ~r.ok THEN r ELSE Parsed(value.tree, r.current)

fail(tokens, current) == Thrown("Unexpected token")

parseAtom(tokens, current) ==
  CASE isToken("NUMBER", peek(tokens, current)) -> parseNumber(tokens, current)
    [] isToken("SYMBOL", peek(tokens, current)) -> parseSymbol(tokens, current)
    [] isToken("LPAREN", peek(tokens, current)) -> parseParens(tokens, current)
    [] OTHER -> fail(tokens, current)

parseLet(tokens, current) ==
  LET name == consumeToken(tokens, current, "SYMBOL")
  IN IF ~name.ok THEN name
     ELSE LET eq == consumeToken(tokens, name.current, "EQUAL")
          IN IF ~eq.ok THEN eq
             ELSE LET bind == expression(tokens, eq.current)
                  IN IF ~bind.ok THEN bind
                     ELSE LET semi == consumeToken(tokens, bind.current, "SEMICOLON")
                          IN IF ~semi.ok THEN semi
                             ELSE LET body == expression(tokens, semi.current)
                                  IN IF ~body.ok THEN body
                                     ELSE Parsed(Let(name.value, bind.tree, body.tree),
                                                 body.current)

parseFun(tokens, current) ==
  LET param == consumeToken(tokens, current, "SYMBOL")
  IN IF ~param.ok THEN param
     ELSE LET arrow == consumeToken(tokens, param.current, "ARROW")
          IN IF ~arrow.ok THEN arrow
             ELSE LET body == expression(tokens, arrow.current)
                  IN IF ~body.ok THEN body
                     ELSE Parsed(Lam(param.value, body.tree), body.current)

\* The while (true) loop of parseCall, one iteration per call.
parseCallLoop(tokens, current, func, args) ==
  LET arg == expression(tokens, current)
  IN IF ~arg.ok THEN arg
     ELSE LET comma == matchToken(tokens, arg.current, "COMMA")
          IN IF comma.matched
             THEN parseCallLoop(tokens, comma.current, func, Append(args, arg.tree))
             ELSE LET rparen == matchToken(tokens, arg.current, "RPAREN")
                  IN Parsed(reduceApp(func, Append(args, arg.tree)), rparen.current)

parseCall(tokens, current, func) == parseCallLoop(tokens, current, func, <<>>)

parseApp(tokens, current) ==
  LET func == parseAtom(tokens, current)
  IN IF ~func.ok THEN func
     ELSE LET lparen == matchToken(tokens, func.current, "LPAREN")
          IN IF lparen.matched
             THEN parseCall(tokens, lparen.current, func.tree)
             ELSE func

expression(tokens, current) ==
  LET isLet == matchToken(tokens, current, "LET")
      isFun == matchToken(tokens, current, "FUN")
  IN IF isLet.matched THEN parseLet(tokens, isLet.current)
     ELSE IF isFun.matched THEN parseFun(tokens, isFun.current)
     ELSE parseApp(tokens, current)

parser(initial) == expression(initial, 0)

(***************************************************************************)
(* Code generation (main.ts 493-586).  A Build (a continuation of the      *)
(* source) is a record naming the function that made it; ApplyBuild calls  *)
(* it.  Code is a sequence of text fragments.                              *)
(***************************************************************************)
bindReturn(bind) == [fn |-> "bindReturn", bind |-> bind]

exprReturn == [fn |-> "exprReturn"]

callReturn == [fn |-> "callReturn"]

sameReturn == [fn |-> "sameReturn"]

ApplyBuild(build, body) ==
  CASE build.fn = "bindReturn" -> <<build.bind, " = ">> \o body \o <<";">>
    [] build.fn = "exprReturn" -> <<"return ">> \o body \o <<";">>
    [] build.fn = "callReturn" -> <<"print_val(">> \o body \o <<");">>
    [] build.fn = "sameReturn" -> body

RECURSIVE Join(_, _)
Join(codes, sep) ==
  IF codes = <<>> THEN <<>>
  ELSE IF Len(codes) = 1 THEN Head(codes)
  ELSE Head(codes) \o <<sep>> \o Join(Tail(codes), sep)

RECURSIVE indentRest(_)
indentRest(str) ==
  IF str = <<>> THEN <<>>
  ELSE (IF Head(str) = "\n" THEN <<"\n", "  ">> ELSE <<Head(str)>>) \o indentRest(Tail(str))

indent(str) == <<"  ">> \o indentRest(str)

codegenRef(build, data) == ApplyBuild(build, <<data>>)

codegenNum(build, data) == ApplyBuild(build, <<"build_int(", ToString(data), ")">>)

codegenIdx(build, data, index) == ApplyBuild(build, <<data, "[", ToString(index), "]">>)

RECURSIVE codegenExpr(_, _)
codegenApp(build, func, argm) ==
  LET code == codegenExpr(sameReturn, argm)
      expr == <<func, "->c.code(", func, "->c.env, ">> \o code \o <<")">>
  IN ApplyBuild(build, expr)

codegenLet(build, name, bind, body) ==
  LET expr == bindReturn(name)
      code == codegenExpr(expr, bind)
      cont == codegenExpr(build, body)
  IN Join(<< <<"struct val *", name, ";">>, code, cont >>, "\n")

codegenCls(build, prop, body) ==
  LET code == [k \in 1..Len(body) |-> codegenExpr(build, body[k])]
      cont == Join(code, ", ")
  IN ApplyBuild(build, <<"build_cls(", prop, ", (struct val *[", ToString(Len(body)), "]){ ">>
                       \o cont \o <<" })">>)

codegenExpr(build, expr) ==
  CASE expr.tag = "Num" -> codegenNum(build, expr.num)
    [] expr.tag = "Ref" -> codegenRef(build, expr.data)
    [] expr.tag = "Idx" -> codegenIdx(build, expr.data, expr.idx)
    [] expr.tag = "App" -> codegenApp(build, expr.func, expr.argm)
    [] expr.tag = "Cls" -> codegenCls(build, expr.prop, expr.body)
    [] expr.tag = "Let" -> codegenLet(build, expr.name, expr.bind, expr.body)

codegenDecl(fr, name, env, prop, body) ==
  LET code == codegenExpr(exprReturn, body)
      expr == << <<"struct val *", name, " (struct val *", env, "[", ToString(fr),
                   "], struct val *", prop, ") {">>,
                 indent(code), <<"}">> >>
  IN Join(expr, "\n")

codegenMain(body) ==
  LET code == codegenExpr(callReturn, body)
      expr == << <<"int main(void) {">>, indent(code), <<"}">> >>
  IN Join(expr, "\n")

codegenTopl(topl) ==
  CASE topl.tag = "Decl" -> codegenDecl(topl.free, topl.name, topl.env, topl.prop, topl.body)
    [] topl.tag = "Main" -> codegenMain(topl.expr)

codegenProg(prog) ==
  LET incl == << <<"#include \"driver.c\"">> >>
      expr == [k \in 1..Len(prog) |-> codegenTopl(prog[k])]
  IN Join(incl \o expr, "\n\n")

(***************************************************************************)
(* Inputs.                                                                 *)
(***************************************************************************)
\* Every Tree with at most MaxNodes nodes over Names and Nums.
TreesOfSize[n \in 1..MaxNodes] ==
  IF n = 1 THEN {Num(d) : d \in Nums} \cup {Var(v) : v \in Names}
  ELSE {Lam(p, b) : p \in Names, b \in TreesOfSize[n - 1]}
       \cup UNION {{App(f, a) : f \in TreesOfSize[k], a \in TreesOfSize[n - 1 - k]}
                   : k \in 1..(n - 2)}
       \cup UNION {{Let(v, b, c) : v \in Names, b \in TreesOfSize[k], c \in TreesOfSize[n - 1 - k]}
                   : k \in 1..(n - 2)}

Trees == UNION {TreesOfSize[n] : n \in 1..MaxNodes}

\* The trees of a sequence of two convertCls calls.
AgainTrees == UNION {TreesOfSize[n] : n \in 1..MaxAgain}

\* Token lists as scanner returns them: no EOF but the last token.
Alphabet ==
  {NUMBER(1), SYMBOL("f"), Tok("SEMICOLON"), Tok("LPAREN"), Tok("RPAREN"), Tok("COMMA"),
   Tok("EQUAL"), Tok("ARROW"), Tok("FUN"), Tok("LET")}

ShortTokens ==
  {Append(ts, Tok("EOF")) : ts \in UNION {[1..n -> Alphabet] : n \in 0..MaxToks}}

\* Argument expressions of a call, each with the tree it denotes.
ArgExprs ==
  { [toks |-> <<NUMBER(1)>>, tree |-> Num(1)],
    [toks |-> <<NUMBER(0)>>, tree |-> Num(0)],
    [toks |-> <<SYMBOL("x")>>, tree |-> Var("x")],
    [toks |-> <<Tok("FUN"), SYMBOL("x"), Tok("ARROW"), SYMBOL("x")>>,
     tree |-> Lam("x", Var("x"))],
    [toks |-> <<SYMBOL("g"), Tok("LPAREN"), NUMBER(2), Tok("RPAREN")>>,
     tree |-> App(Var("g"), Num(2))] }

ArgLists == UNION {[1..n -> ArgExprs] : n \in 1..MaxArgs}

\* The token list of the call f(a1, ..., an).
CallTokens(f, args) ==
  <<SYMBOL(f), Tok("LPAREN")>> \o Join([k \in 1..Len(args) |-> args[k].toks], Tok("COMMA"))
  \o <<Tok("RPAREN"), Tok("EOF")>>

CallInputs == {CallTokens("f", args) : args \in ArgLists}

\* Source texts: the end-to-end scenarios and the program of main.ts 633-637.
Scenario1 ==
  <<"5">>

Scenario2 ==
  <<"l", "e", "t", " ", "x", " ", "=", " ", "5", ";", " ", "x">>

Scenario3 ==
  <<"(", "f", "u", "n", " ", "x", " ", "=", ">", " ", "x", ")", "(", "7", ")">>

Scenario4 ==
  <<"l", "e", "t", " ", "i", "d", " ", "=", " ", "f", "u", "n", " ", "x", " ", "=", ">",
    " ", "x", ";", " ", "l", "e", "t", " ", "k", " ", "=", " ", "f", "u", "n", " ", "y",
    " ", "=", ">", " ", "i", "d", ";", " ", "k", "(", "1", ")", "(", "2", ")">>

DriverProgram ==
  <<"\n", " ", " ", " ", " ", "l", "e", "t", " ", "i", "d", " ", "=", " ", "f", "u", "n",
    " ", "x", " ", "=", ">", " ", "x", ";", "\n", " ", " ", " ", " ", "l", "e", "t", " ",
    "f", "x", " ", "=", " ", "f", "u", "n", " ", "f", " ", "=", ">", " ", "f", "u", "n",
    " ", "x", " ", "=", ">", " ", "x", ";", "\n", " ", " ", " ", " ", "f", "x", "(", "i",
    "d", ",", " ", "5", ")", " ", "\n", " ", " ">>

\* A program whose variable has the name convertApp makes for its temporary.
Shadowed ==
  <<"l", "e", "t", " ", "_", "3", " ", "=", " ", "5", ";", " ", "l", "e", "t", " ", "f",
    " ", "=", " ", "f", "u", "n", " ", "x", " ", "=", ">", " ", "x", ";", " ", "f", "(",
    "_", "3", ")">>

\* A program that applies a closure after the function that built it, with
\* its argument captured, has returned.
Escaping ==
  <<"l", "e", "t", " ", "r", " ", "=", " ", "(", "f", "u", "n", " ", "x", " ", "=", ">",
    " ", "(", "f", "u", "n", " ", "z", " ", "=", ">", " ", "z", ")", "(", "f", "u", "n",
    " ", "y", " ", "=", ">", " ", "x", ")", ")", "(", "1", ")", ";", " ", "r", "(", "2",
    ")">>

\* Every text of at most MaxChars characters over digits, ".", a letter,
\* blank, "=" and ">" (which no rule accepts on its own).
ScanChars == {"1", "2", ".", "a", " ", "=", ">"}

ScanInputs == UNION {[1..n -> ScanChars] : n \in 0..MaxChars}

Sources ==
  {Scenario1, Scenario2, Scenario3, Scenario4, DriverProgram, Shadowed, Escaping}
  \cup ScanInputs

TokenInputs == ShortTokens \cup CallInputs

(***************************************************************************)
(* The runtime (output/driver.h, output/driver.c).  A val_t is a tag and a *)
(* union c of {code, env} and integer; what printf writes is a sequence of *)
(* text fragments.                                                         *)
(***************************************************************************)
build_cls(code, env) == [tag |-> "CLOSURE_T", code |-> code, env |-> env]

build_int(val) == [tag |-> "INT_T", integer |-> val]

\* What the member c.integer can show while the union holds code and env.
Overlay == {-1, 0, 4096}

\* print_val(val).  The switch has no break: the CLOSURE_T case runs on into
\* the INT_T case, which reads c.integer; bits is what that read gives for
\* a closure.
print_val(val, bits) ==
  CASE val.tag = "CLOSURE_T" -> <<"<#closure>\n">> \o <<ToString(bits), "\n">>
    [] val.tag = "INT_T" -> <<ToString(val.integer), "\n">>
    [] OTHER -> <<>>

(***************************************************************************)
(* The generated program as gcc accepts it.  Each function text is one     *)
(* block: codegenLet declares its local where the Let stands, so a name is *)
(* in scope from its declaration on and may be declared once; a Cls is     *)
(* text of C only with no captured expression or under sameReturn          *)
(* (codegenCls applies build to each captured expression); the argument of *)
(* a call must be an expression.  sc holds the names declared so far.      *)
(***************************************************************************)
Scoped(ok, sc) == [ok |-> ok, sc |-> sc]

RECURSIVE Compiles(_, _, _, _, _)
Compiles(e, build, env, funs, sc) ==
  CASE e.tag = "Num" -> Scoped(TRUE, sc)
    [] e.tag = "Ref" -> Scoped(e.data \in sc, sc)
    [] e.tag = "Idx" -> Scoped(e.data = env, sc)
    [] e.tag = "Cls" ->
         Scoped(/\ e.prop \in funs
                /\ Len(e.body) = 0 \/ build = sameReturn
                /\ \A k \in 1..Len(e.body) : Compiles(e.body[k], sameReturn, env, funs, sc).ok,
                sc)
    [] e.tag = "App" ->
         Scoped(/\ e.func \in sc
                /\ e.argm.tag \notin {"Let", "App"}
                /\ Compiles(e.argm, sameReturn, env, funs, sc).ok,
                sc)
    [] e.tag = "Let" ->
         LET fresh == e.name \notin sc \cup funs \cup {env}
             bind == Compiles(e.bind, bindReturn(e.name), env, funs, sc \cup {e.name})
             body == Compiles(e.body, build, env, funs, bind.sc)
         IN Scoped(build # sameReturn /\ fresh /\ bind.ok /\ body.ok, body.sc)

\* gcc accepts the text of prog.
CompilesProg(prog) ==
  \A k \in 1..Len(prog) :
    LET funs == {prog[j].name : j \in 1..k - 1}
    IN IF prog[k].tag = "Decl"
       THEN /\ prog[k].name \notin funs
            /\ prog[k].prop \notin funs \cup {prog[k].env, prog[k].name}
            /\ Compiles(prog[k].body, exprReturn, prog[k].env,
                        funs \cup {prog[k].name}, {prog[k].prop}).ok
       ELSE Compiles(prog[k].expr, callReturn, "", funs, {}).ok

(***************************************************************************)
(* A run of the generated program.  A frame is one invocation of a         *)
(* function (0 is main): its locals, the env pointer it was passed and its *)
(* id.  The array of a build_cls call is a compound literal of the block   *)
(* of the function that makes the closure (main.ts 547): mem.envs holds    *)
(* the arrays with the frame that owns each, mem.dead the frames that have *)
(* returned.  build_cls keeps the pointer to the array (driver.c 17) and   *)
(* copies nothing.                                                         *)
(***************************************************************************)
NoVal == [tag |-> "NONE"]

Ran(st, val, locals, mem) == [st |-> st, val |-> val, locals |-> locals, mem |-> mem]

\* What a read of an array whose block has ended can give: the value that
\* was stored, another value, or a crash.
Dangling == {"stale", "junk", "segfault"}

\* env[idx] in frame fr.
readEnv(fr, mem, idx, dang) ==
  LET array == mem.envs[fr.env]
  IN IF ~(idx + 1 \in 1..Len(array.vals)) THEN Ran("undefined", NoVal, fr.locals, mem)
     ELSE IF array.owner \in mem.dead
     THEN CASE dang = "stale" -> Ran("ok", array.vals[idx + 1], fr.locals, mem)
            [] dang = "junk" -> Ran("ok", build_int(-1), fr.locals, mem)
            [] dang = "segfault" -> Ran("segfault", NoVal, fr.locals, mem)
     ELSE Ran("ok", array.vals[idx + 1], fr.locals, mem)

FindDecl(prog, name) == prog[CHOOSE k \in 1..Len(prog) - 1 : prog[k].name = name]

\* The statements codegenExpr emits for e, run in frame fr: the value e
\* hands to its continuation, the locals and the memory afterwards.  fuel
\* is the number of calls still allowed.
RECURSIVE exec(_, _, _, _, _, _)
execCls(prog, e, fr, mem, fuel, dang) ==
  LET caps == [k \in 1..Len(e.body) |-> exec(prog, e.body[k], fr, mem, fuel, dang)]
      failed == {k \in 1..Len(caps) : caps[k].st # "ok"}
      array == [vals |-> [k \in 1..Len(caps) |-> caps[k].val], owner |-> fr.id]
      held == [mem EXCEPT !.envs = Append(mem.envs, array)]
  IN IF failed # {}
     THEN Ran(caps[CHOOSE k \in failed : \A j \in failed : k <= j].st, NoVal, fr.locals, mem)
     ELSE Ran("ok", build_cls(e.prop, Len(held.envs)), fr.locals, held)

execApp(prog, e, fr, mem, fuel, dang) ==
  LET argm == exec(prog, e.argm, fr, mem, fuel, dang)
      func == IF e.func \in DOMAIN fr.locals THEN fr.locals[e.func] ELSE NoVal
      decl == FindDecl(prog, func.code)
      id == argm.mem.frames + 1
      callee == [locals |-> MapSet(EmptyMap, decl.prop, argm.val), env |-> func.env, id |-> id]
      ret == exec(prog, decl.body, callee, [argm.mem EXCEPT !.frames = id], fuel - 1, dang)
  IN IF argm.st # "ok" THEN Ran(argm.st, NoVal, fr.locals, argm.mem)
     ELSE IF func.tag # "CLOSURE_T" THEN Ran("undefined", NoVal, fr.locals, argm.mem)
     ELSE IF fuel = 0 THEN Ran("fuel", NoVal, fr.locals, argm.mem)
     ELSE Ran(ret.st, ret.val, fr.locals, [ret.mem EXCEPT !.dead = ret.mem.dead \cup {id}])

execLet(prog, e, fr, mem, fuel, dang) ==
  LET bind == exec(prog, e.bind, fr, mem, fuel, dang)
      bound == [fr EXCEPT !.locals = MapSet(bind.locals, e.name, bind.val)]
  IN IF bind.st # "ok" THEN bind
     ELSE exec(prog, e.body, bound, bind.mem, fuel, dang)

exec(prog, e, fr, mem, fuel, dang) ==
  CASE e.tag = "Num" -> Ran("ok", build_int(e.num), fr.locals, mem)
    [] e.tag = "Ref" ->
         IF e.data \in DOMAIN fr.locals
         THEN Ran("ok", fr.locals[e.data], fr.locals, mem)
         ELSE Ran("undefined", NoVal, fr.locals, mem)
    [] e.tag = "Idx" -> readEnv(fr, mem, e.idx, dang)
    [] e.tag = "Cls" -> execCls(prog, e, fr, mem, fuel, dang)
    [] e.tag = "App" -> execApp(prog, e, fr, mem, fuel, dang)
    [] e.tag = "Let" -> execLet(prog, e, fr, mem, fuel, dang)

\* main(): the Main of prog run in frame 0, and what print_val writes.
execMain(prog, dang, bits) ==
  LET frame == [locals |-> EmptyMap, env |-> 0, id |-> 0]
      ret == exec(prog, prog[Len(prog)].expr, frame,
                  [envs |-> <<>>, frames |-> 0, dead |-> {}], MaxCalls, dang)
  IN [st |-> ret.st, val |-> ret.val,
      out |-> IF ret.st = "ok" THEN print_val(ret.val, bits) ELSE <<>>]

(***************************************************************************)
(* The state machine.  pc names the operation that runs next:              *)
(*   "scan" -> "parse" -> "convert" -> "codegen" -> "done" is driver       *)
(*   (main.ts 613-629) up to the generated text; a run may also start at   *)
(*   parser with a token list or at convertCls with a tree; "free" applies *)
(*   free to a tree; "heap" exercises State objects and "print" print_val; *)
(*   "again" follows a second convertCls call and "ran" a run of the       *)
(*   compiled program.                                                     *)
(***************************************************************************)
VARIABLES pc, impl, source, scanned, tokens, parsed, tree, fvs, prog, state, proto, later,
          code, run, heap

vars ==
  <<pc, impl, source, scanned, tokens, parsed, tree, fvs, prog, state, proto, later, code,
    run, heap>>

NoTree == [tag |-> "None"]

NoParse == [ok |-> FALSE, error |-> "not run"]

NoScan == [ok |-> FALSE, error |-> "not run"]

NoCall == [tag |-> "None"]

NoRun == [st |-> "not run"]

Init ==
  /\ scanned = NoScan
  /\ parsed = NoParse
  /\ later = NoCall
  /\ run = NoRun
  /\ fvs = <<>>
  /\ prog = <<>>
  /\ state = makeState
  /\ proto = EmptyMap
  /\ code = <<>>
  /\ heap = <<>>
  /\ \/ /\ pc = "scan" /\ source \in Sources /\ tokens = <<>> /\ tree = NoTree
        /\ impl \in Impls
     \/ /\ pc = "parse" /\ source = <<>> /\ tokens \in TokenInputs /\ tree = NoTree
        /\ impl \in Impls
     \/ /\ pc = "convert" /\ source = <<>> /\ tokens = <<>> /\ tree \in Trees
        /\ impl \in Impls
     \* No context is made in the runs below: they are the same under both
     \* implementations.
     \/ /\ pc = "free" /\ source = <<>> /\ tokens = <<>> /\ tree \in Trees
        /\ impl = "closure"
     \/ /\ pc \in {"heap", "print"} /\ source = <<>> /\ tokens = <<>> /\ tree = NoTree
        /\ impl = "closure"

\* scanner(source)
Scan ==
  /\ pc = "scan"
  /\ LET scan == scanner(source)
     IN IF scan.ok
        THEN tokens' = scan.tokens /\ pc' = "parse"
        ELSE tokens' = tokens /\ pc' = "error"
  /\ scanned' = scanner(source)
  /\ UNCHANGED <<impl, source, parsed, tree, fvs, prog, state, proto, later, code, run, heap>>

\* parser(scan)
Parse ==
  /\ pc = "parse"
  /\ parsed' = parser(tokens)
  /\ IF parsed'.ok
     THEN tree' = parsed'.tree /\ pc' = "convert"
     ELSE tree' = tree /\ pc' = "error"
  /\ UNCHANGED <<impl, source, scanned, tokens, fvs, prog, state, proto, later, code, run, heap>>

\* free(tree)
Free ==
  /\ pc = "free"
  /\ fvs' = free(tree)
  /\ pc' = "done"
  /\ UNCHANGED <<impl, source, scanned, tokens, parsed, tree, prog, state, proto, later, code, run,
               heap>>

\* convertCls(prog)
ConvertCls ==
  /\ pc = "convert"
  /\ LET r == convertCls(impl, proto, tree)
     IN prog' = r.prog /\ state' = r.state /\ proto' = r.proto
  /\ pc' = "codegen"
  /\ UNCHANGED <<impl, source, scanned, tokens, parsed, tree, fvs, later, code, run, heap>>

\* Number of nodes of a tree.
RECURSIVE CountNodes(_)
CountNodes(t) ==
  CASE t.tag = "Num" -> 1
    [] t.tag = "Var" -> 1
    [] t.tag = "Lam" -> 1 + CountNodes(t.body)
    [] t.tag = "App" -> 1 + CountNodes(t.func) + CountNodes(t.argm)
    [] t.tag = "Let" -> 1 + CountNodes(t.bind) + CountNodes(t.body)

\* convertCls(next): a later call in the process that already converted
\* tree, both trees handed to convertCls directly.  The State is made anew
\* by the call (main.ts 489); the Map of the prototype-based context is the
\* one the earlier call left.
ConvertAgain ==
  /\ pc = "codegen"
  /\ later = NoCall
  /\ source = <<>> /\ tokens = <<>>
  /\ CountNodes(tree) <= MaxAgain
  /\ \E t \in AgainTrees :
       LET r == convertCls(impl, proto, t)
       IN later' = [tag |-> "Call", tree |-> t, prog |-> r.prog] /\ proto' = r.proto
  /\ pc' = "again"
  /\ UNCHANGED <<impl, source, scanned, tokens, parsed, tree, fvs, prog, state, code, run, heap>>

\* codegenProg(conv)
Codegen ==
  /\ pc = "codegen"
  /\ code' = codegenProg(prog)
  /\ pc' = "done"
  /\ UNCHANGED <<impl, source, scanned, tokens, parsed, tree, fvs, prog, state, proto, later, run,
               heap>>

\* print_val(val) on a value build_int or build_cls returned.
PrintVal ==
  /\ pc = "print"
  /\ \E val \in {build_int(n) : n \in Nums \cup {0, -7}} \cup {build_cls("cls2", <<>>)} :
       \E bits \in Overlay :
         run' = [st |-> "ok", val |-> val, out |-> print_val(val, bits)]
  /\ pc' = "done"
  /\ UNCHANGED <<impl, source, scanned, tokens, parsed, tree, fvs, prog, state, proto, later, code,
               heap>>

\* The program gcc made of the text, run.
Run ==
  /\ pc = "done"
  /\ Len(code) > 0
  /\ CompilesProg(prog)
  /\ \E dang \in Dangling : \E bits \in Overlay : run' = execMain(prog, dang, bits)
  /\ pc' = "ran"
  /\ UNCHANGED <<impl, source, scanned, tokens, parsed, tree, fvs, prog, state, proto, later, code,
               heap>>

\* makeState(): a new State object.
MakeState ==
  /\ pc = "heap"
  /\ Len(heap) < MaxStates
  /\ heap' = Append(heap, makeState)
  /\ UNCHANGED <<pc, impl, source, scanned, tokens, parsed, tree, fvs, prog, state, proto, later,
               code, run>>

\* heap[ref].next(): the receiver is updated in place.
StateNext(ref) ==
  /\ pc = "heap"
  /\ heap[ref].curr < MaxDraws
  /\ heap' = [heap EXCEPT ![ref] = next(heap[ref]).state]
  /\ UNCHANGED <<pc, impl, source, scanned, tokens, parsed, tree, fvs, prog, state, proto, later,
               code, run>>

Next ==
  \/ Scan
  \/ Parse
  \/ Free
  \/ ConvertCls
  \/ ConvertAgain
  \/ Codegen
  \/ PrintVal
  \/ Run
  \/ MakeState
  \/ \E ref \in 1..Len(heap) : StateNext(ref)

Spec == Init /\ [][Next]_vars

(***************************************************************************)
(* Definitions the properties are stated with.                             *)
(***************************************************************************)
\* A tree is closed when every Var lies in the body of a Lam or of a Let
\* that binds its name.
RECURSIVE ClosedIn(_, _)
ClosedIn(t, bound) ==
  CASE t.tag = "Num" -> TRUE
    [] t.tag = "Var" -> t.data \in bound
    [] t.tag = "Lam" -> ClosedIn(t.body, bound \cup {t.prop})
    [] t.tag = "App" -> ClosedIn(t.func, bound) /\ ClosedIn(t.argm, bound)
    [] t.tag = "Let" -> ClosedIn(t.bind, bound) /\ ClosedIn(t.body, bound \cup {t.name})

Closed(t) == ClosedIn(t, {})

\* Every Ref of e names a member of bound or a Let of e whose body holds it.
RECURSIVE RefsBound(_, _)
RefsBound(e, bound) ==
  CASE e.tag = "Num" -> TRUE
    [] e.tag = "Idx" -> TRUE
    [] e.tag = "Ref" -> e.data \in bound
    [] e.tag = "App" -> RefsBound(e.argm, bound)
    [] e.tag = "Cls" -> \A k \in 1..Len(e.body) : RefsBound(e.body[k], bound)
    [] e.tag = "Let" -> RefsBound(e.bind, bound) /\ RefsBound(e.body, bound \cup {e.name})

\* Every Idx of e reads env at an index below n.
RECURSIVE IdxWithin(_, _, _)
IdxWithin(e, env, n) ==
  CASE e.tag = "Num" -> TRUE
    [] e.tag = "Ref" -> TRUE
    [] e.tag = "Idx" -> e.data = env /\ 0 <= e.idx /\ e.idx < n
    [] e.tag = "App" -> IdxWithin(e.argm, env, n)
    [] e.tag = "Cls" -> \A k \in 1..Len(e.body) : IdxWithin(e.body[k], env, n)
    [] e.tag = "Let" -> IdxWithin(e.bind, env, n) /\ IdxWithin(e.body, env, n)

\* e with every Idx(env, i) read back as refs[i + 1].
RECURSIVE ReadBack(_, _, _)
ReadBack(e, env, refs) ==
  CASE e.tag = "Num" -> e
    [] e.tag = "Ref" -> e
    [] e.tag = "Idx" -> IF e.data = env /\ e.idx + 1 \in 1..Len(refs) THEN refs[e.idx + 1] ELSE e
    [] e.tag = "App" -> EApp(e.func, ReadBack(e.argm, env, refs))
    [] e.tag = "Cls" -> ECls(e.prop, [k \in 1..Len(e.body) |-> ReadBack(e.body[k], env, refs)])
    [] e.tag = "Let" -> ELet(e.name, ReadBack(e.bind, env, refs), ReadBack(e.body, env, refs))

RECURSIVE CountLam(_)
CountLam(t) ==
  CASE t.tag = "Lam" -> 1 + CountLam(t.body)
    [] t.tag = "App" -> CountLam(t.func) + CountLam(t.argm)
    [] t.tag = "Let" -> CountLam(t.bind) + CountLam(t.body)
    [] OTHER -> 0

RECURSIVE CountApp(_)
CountApp(t) ==
  CASE t.tag = "Lam" -> CountApp(t.body)
    [] t.tag = "App" -> 1 + CountApp(t.func) + CountApp(t.argm)
    [] t.tag = "Let" -> CountApp(t.bind) + CountApp(t.body)
    [] OTHER -> 0

\* The parameters of the Lam nodes of t, inner lambdas first, func before
\* argm and bind before body.
RECURSIVE LamProps(_)
LamProps(t) ==
  CASE t.tag = "Lam" -> Append(LamProps(t.body), t.prop)
    [] t.tag = "App" -> LamProps(t.func) \o LamProps(t.argm)
    [] t.tag = "Let" -> LamProps(t.bind) \o LamProps(t.body)
    [] OTHER -> <<>>

\* The func names of the App nodes of an Expr.
RECURSIVE AppFuncs(_)
AppFuncs(e) ==
  CASE e.tag = "App" -> <<e.func>> \o AppFuncs(e.argm)
    [] e.tag = "Cls" -> Flatten([k \in 1..Len(e.body) |-> AppFuncs(e.body[k])])
    [] e.tag = "Let" -> AppFuncs(e.bind) \o AppFuncs(e.body)
    [] OTHER -> <<>>

Distinct(s) == \A i, j \in 1..Len(s) : i # j => s[i] # s[j]

IsConverted == Len(prog) > 0

Decls == SubSeq(prog, 1, Len(prog) - 1)

MainExpr == prog[Len(prog)].expr

ToplExpr(topl) == IF topl.tag = "Decl" THEN topl.body ELSE topl.expr

\* First position of the two adjacent fragments a, b in text; 0 if none.
Find(text, a, b) ==
  LET at == {k \in 1..(Len(text) - 1) : text[k] = a /\ text[k + 1] = b}
  IN IF at = {} THEN 0 ELSE CHOOSE k \in at : \A m \in at : k <= m

\* The text of main(): the last function of the generated code.
MainCode ==
  LET at == {k \in 1..Len(code) : code[k] = "int main(void) {"}
  IN IF at = {} THEN <<>> ELSE SubSeq(code, CHOOSE k \in at : TRUE, Len(code))

(***************************************************************************)
(* C1: for a closed tree, no Decl body of convertCls's Prog holds a Ref    *)
(* other than to the Decl's argument parameter or to a Let of the same     *)
(* body that encloses the Ref.                                             *)
(***************************************************************************)
C1_DeclRefsResolved ==
  (IsConverted /\ Closed(tree)) =>
    \A k \in 1..Len(Decls) : RefsBound(Decls[k].body, {Decls[k].prop})

(***************************************************************************)
(* C2: free of a closed tree is empty, Let binding its name in body only.  *)
(***************************************************************************)
C2_ClosedFreeEmpty ==
  (pc = "done" /\ ~IsConverted /\ Closed(tree)) => fvs = <<>>

(***************************************************************************)
(* C3: a Decl and its Cls agree: Decl.free is the length of the captured   *)
(* list, the captured list is Ref(fv_0..n-1) with distinct names, every    *)
(* Idx of the Decl body reads the Decl's own env at an index below         *)
(* Decl.free and stands for fv_i.  The Cls of the whole tree's lambda is   *)
(* Main's expression; its Decl is the last one.                            *)
(***************************************************************************)
C3_DeclClsAgree ==
  IsConverted =>
    /\ \A k \in 1..Len(Decls) : IdxWithin(Decls[k].body, Decls[k].env, Decls[k].free)
    /\ tree.tag = "Lam" =>
         LET decl == Decls[Len(Decls)]
             clos == MainExpr
         IN /\ clos.tag = "Cls"
            /\ clos.prop = decl.name
            /\ decl.free = Len(clos.body)
            /\ \A k \in 1..Len(clos.body) : clos.body[k].tag = "Ref"
            /\ Distinct(clos.body)
            /\ ReadBack(decl.body, decl.env, clos.body)
                 = convert(impl, next(next(makeState).state).state, EmptyMap, tree.body).expr

(***************************************************************************)
(* C4: for a closed tree, every Ref of Main's expression, those of a Cls   *)
(* captured list included, names a Let of Main whose body encloses it.     *)
(***************************************************************************)
C4_MainRefsBound ==
  (IsConverted /\ Closed(tree)) => RefsBound(MainExpr, {})

(***************************************************************************)
(* C5: for App(f, a) the Decls hoisted from f come before those hoisted    *)
(* from a, the residual is Let(t, fExpr, App(t, aExpr)) with t the         *)
(* temporary drawn after f's conversion, and the rendered main() assigns   *)
(* to t before the call through t that holds the argument text.            *)
(***************************************************************************)
C5_AppOrder ==
  (IsConverted /\ tree.tag = "App") =>
    LET f == convert(impl, makeState, EmptyMap, tree.func)
        t == "_" \o ToString(2 * CountLam(tree.func) + CountApp(tree.func) + 1)
        a == convert(impl, next(f.state).state, f.proto, tree.argm)
    IN /\ [k \in 1..Len(Decls) |-> Decls[k].prop] = LamProps(tree.func) \o LamProps(tree.argm)
       /\ SubSeq(Decls, 1, CountLam(tree.func)) = f.prog
       /\ SubSeq(Decls, CountLam(tree.func) + 1, Len(Decls)) = a.prog
       /\ MainExpr = ELet(t, f.expr, EApp(t, a.expr))
       /\ pc = "done" =>
            /\ Find(MainCode, t, " = ") > 0
            /\ Find(MainCode, t, "->c.code(") > Find(MainCode, t, " = ")

\* An application whose function and argument both hoist declarations,
\* converted and rendered.
C5_Witness ==
  /\ pc = "done" /\ IsConverted /\ tree.tag = "App"
  /\ CountLam(tree.func) > 0 /\ CountLam(tree.argm) > 0
  /\ LamProps(tree.func) # LamProps(tree.argm)

(***************************************************************************)
(* C6: next leaves the State it is called on unchanged, so two calls of    *)
(* next on one State return the same integer.                              *)
(***************************************************************************)
C6_NextSameInteger ==
  \A ref \in 1..Len(heap) :
    /\ heap[ref].curr = makeState.curr
    /\ \A i, j \in 1..Len(heap[ref].log) : heap[ref].log[i] = heap[ref].log[j]

(***************************************************************************)
(* C7: in one convertCls call the integers drawn are pairwise distinct,    *)
(* no two Decls share a name or an env, no two applications share a        *)
(* temporary, and there are 2 * #Lam + #App draws.                         *)
(***************************************************************************)
C7_DrawsDistinct ==
  IsConverted =>
    LET temps == Flatten([k \in 1..Len(prog) |-> AppFuncs(ToplExpr(prog[k]))])
    IN /\ Distinct(state.log)
       /\ Len(state.log) = 2 * CountLam(tree) + CountApp(tree)
       /\ Distinct([k \in 1..Len(Decls) |-> Decls[k].name])
       /\ Distinct([k \in 1..Len(Decls) |-> Decls[k].env])
       /\ Distinct(temps)
       /\ Len(temps) = CountApp(tree)
       /\ {Decls[k].name : k \in 1..Len(Decls)} \subseteq
            {"cls" \o ToString(d) : d \in Range(state.log)}
       /\ {Decls[k].env : k \in 1..Len(Decls)} \subseteq
            {"env" \o ToString(d) : d \in Range(state.log)}
       /\ Range(temps) \subseteq {"_" \o ToString(d) : d \in Range(state.log)}

\* A conversion with sibling lambdas and an application.
C7_Witness ==
  IsConverted /\ CountLam(tree) >= 2 /\ CountApp(tree) >= 1 /\ Len(state.log) >= 5

(***************************************************************************)
(* C8: parser returns a tree only when the tokens before EOF are one       *)
(* expression of the grammar                                               *)
(*   expression  := LET SYMBOL EQUAL expression SEMICOLON expression       *)
(*                | FUN SYMBOL ARROW expression | application              *)
(*   application := atom ( LPAREN argList RPAREN )?                        *)
(*   argList     := expression ( COMMA expression )*                       *)
(*   atom        := NUMBER | SYMBOL | LPAREN expression RPAREN             *)
(* and fails on every other token list.                                    *)
(***************************************************************************)
RECURSIVE IsExpression(_, _, _)
RECURSIVE IsApplication(_, _, _)
RECURSIVE IsArgList(_, _, _)
RECURSIVE IsAtom(_, _, _)
\* Each predicate says that ts[i .. j-1] derives from the nonterminal.
IsAtom(ts, i, j) ==
  \/ j = i + 1 /\ ts[i].tag \in {"NUMBER", "SYMBOL"}
  \/ /\ j >= i + 3
     /\ ts[i].tag = "LPAREN"
     /\ ts[j - 1].tag = "RPAREN"
     /\ IsExpression(ts, i + 1, j - 1)

IsArgList(ts, i, j) ==
  \/ IsExpression(ts, i, j)
  \/ \E k \in (i + 1)..(j - 2) :
       ts[k].tag = "COMMA" /\ IsExpression(ts, i, k) /\ IsArgList(ts, k + 1, j)

IsApplication(ts, i, j) ==
  \/ IsAtom(ts, i, j)
  \/ \E k \in (i + 1)..(j - 3) :
       /\ ts[k].tag = "LPAREN"
       /\ ts[j - 1].tag = "RPAREN"
       /\ IsAtom(ts, i, k)
       /\ IsArgList(ts, k + 1, j - 1)

IsExpression(ts, i, j) ==
  /\ j > i
  /\ \/ /\ j >= i + 6
        /\ ts[i].tag = "LET" /\ ts[i + 1].tag = "SYMBOL" /\ ts[i + 2].tag = "EQUAL"
        /\ \E k \in (i + 4)..(j - 2) :
             ts[k].tag = "SEMICOLON" /\ IsExpression(ts, i + 3, k) /\ IsExpression(ts, k + 1, j)
     \/ /\ j >= i + 4
        /\ ts[i].tag = "FUN" /\ ts[i + 1].tag = "SYMBOL" /\ ts[i + 2].tag = "ARROW"
        /\ IsExpression(ts, i + 3, j)
     \/ IsApplication(ts, i, j)

InGrammar(ts) == IsExpression(ts, 1, Len(ts))

C8_ParserAcceptsGrammarOnly ==
  parsed.ok => InGrammar(tokens)

(***************************************************************************)
(* C9: for `let id = fun x => x; let k = fun y => id; k(1)(2)` Main        *)
(* applies k to 1 and the resulting closure to 2, and k's Decl reads id    *)
(* as Idx(env, 0).                                                         *)
(***************************************************************************)
C9_Scenario4 ==
  (source = Scenario4 /\ pc \in {"codegen", "done"}) =>
    /\ \E k \in 1..Len(Decls) :
         Decls[k].prop = "y" /\ Decls[k].free = 1 /\ Decls[k].body = EIdx(Decls[k].env, 0)
    /\ LET call == MainExpr.body.body
       IN /\ call.tag = "Let"
          /\ call.bind.tag = "Let"
          /\ call.bind.bind = ERef("k")
          /\ call.bind.body = EApp(call.bind.name, ENum(1))
          /\ call.body = EApp(call.name, ENum(2))

(***************************************************************************)
(* C10: for a call f(a1, ..., an), n >= 1, parser returns                  *)
(* App(...App(App(f, a1), a2)..., an).                                     *)
(***************************************************************************)
RECURSIVE LeftNested(_, _)
LeftNested(f, trees) ==
  IF trees = <<>> THEN f
  ELSE App(LeftNested(f, SubSeq(trees, 1, Len(trees) - 1)), trees[Len(trees)])

C10_CallLeftNested ==
  (pc \in {"convert", "error"} /\ source = <<>> /\ parsed # NoParse /\ tokens[1] = SYMBOL("f")) =>
    \A args \in ArgLists :
      tokens = CallTokens("f", args) =>
        /\ parsed.ok
        /\ parsed.tree = LeftNested(Var("f"), [k \in 1..Len(args) |-> args[k].tree])

(***************************************************************************)
(* C11: convertCls keeps no state between calls: the Prog a later call     *)
(* returns for a tree is the Prog returned when that tree is the first one *)
(* converted in the process.                                               *)
(***************************************************************************)
C11_NoStateBetweenCalls ==
  later # NoCall => later.prog = convertCls(impl, EmptyMap, later.tree).prog

(***************************************************************************)
(* C12: the Prog of convertCls holds one Main, last, and one Decl per Lam  *)
(* of the tree, the Decl of a lambda nested in another lambda's body       *)
(* before the Decl of the enclosing one; a tree without Lam and App gives  *)
(* [Main(e)], e the tree with every Var turned into Ref.                   *)
(***************************************************************************)
\* The names of the functions hoisted from t, in the order claimed: a
\* lambda draws its two integers before its body is converted and stands
\* after the lambdas of its body.  n is the counter before t.
RECURSIVE DeclNames(_, _)
DeclNames(t, n) ==
  CASE t.tag = "Lam" -> Append(DeclNames(t.body, n + 2), "cls" \o ToString(n + 2))
    [] t.tag = "App" ->
         DeclNames(t.func, n)
         \o DeclNames(t.argm, n + 2 * CountLam(t.func) + CountApp(t.func) + 1)
    [] t.tag = "Let" ->
         DeclNames(t.bind, n)
         \o DeclNames(t.body, n + 2 * CountLam(t.bind) + CountApp(t.bind))
    [] OTHER -> <<>>

\* A tree without Lam and App, every Var turned into Ref.
RECURSIVE AsExpr(_)
AsExpr(t) ==
  CASE t.tag = "Num" -> ENum(t.num)
    [] t.tag = "Var" -> ERef(t.data)
    [] t.tag = "Let" -> ELet(t.name, AsExpr(t.bind), AsExpr(t.body))

\* p has the shape claimed for the Prog of t.
ProgShape(p, t) ==
  /\ Len(p) = CountLam(t) + 1
  /\ p[Len(p)].tag = "Main"
  /\ \A k \in 1..Len(p) - 1 : p[k].tag = "Decl"
  /\ [k \in 1..Len(p) - 1 |-> p[k].name] = DeclNames(t, 0)
  /\ [k \in 1..Len(p) - 1 |-> p[k].prop] = LamProps(t)
  /\ CountLam(t) + CountApp(t) = 0 => p = <<TMain(AsExpr(t))>>

C12_ProgShape ==
  /\ IsConverted => ProgShape(prog, tree)
  /\ later # NoCall => ProgShape(later.prog, later.tree)

\* An application of a lambda that holds a lambda in its body to an
\* argument that holds a lambda, converted.
C12_Witness ==
  /\ IsConverted /\ tree.tag = "App"
  /\ tree.func.tag = "Lam" /\ CountLam(tree.func.body) > 0
  /\ CountLam(tree.argm) > 0

(***************************************************************************)
(* C13: print_val writes, for a CLOSURE value, the placeholder line and    *)
(* nothing else, and for an INTEGER value its decimal value and a newline. *)
(***************************************************************************)
C13_PrintVal ==
  run.st = "ok" =>
    /\ run.val.tag = "CLOSURE_T" => run.out = <<"<#closure>\n">>
    /\ run.val.tag = "INT_T" => run.out = <<ToString(run.val.integer), "\n">>

(***************************************************************************)
(* C14: scanner ends on every source text in one of two ways: when every   *)
(* character belongs to a lexical rule it returns tokens that end with the *)
(* only EOF; otherwise it fails at the first character no rule accepts (a  *)
(* "." that is not between two digits of a number included) and returns no *)
(* tokens.                                                                 *)
(***************************************************************************)
\* The lexical rules: s is one lexeme.
IsNumberLexeme(s) ==
  \E k \in 1..Len(s) :
    /\ \A i \in 1..k : isDigit(s[i])
    /\ \/ k = Len(s)
       \/ /\ k + 2 <= Len(s)
          /\ s[k + 1] = "."
          /\ \A i \in k + 2..Len(s) : isDigit(s[i])

IsNameLexeme(s) == Len(s) > 0 /\ isAlpha(s[1]) /\ \A i \in 1..Len(s) : isAlphaNumeric(s[i])

IsLexeme(s) ==
  \/ s \in {<<" ">>, <<"\r">>, <<"\n">>, <<"\t">>}
  \/ s \in {<<"(">>, <<")">>, <<"=">>, <<";">>, <<",">>, <<"=", ">">>}
  \/ IsNumberLexeme(s)
  \/ IsNameLexeme(s)

\* The end of the longest lexeme of text that starts after position m;
\* m itself when no lexeme starts there.
LongestLexeme(text, m) ==
  LET ends == {n \in m + 1..Len(text) : IsLexeme(SubSeq(text, m + 1, n))}
  IN IF ends = {} THEN m ELSE CHOOSE n \in ends : \A k \in ends : k <= n

\* The length of the longest prefix of text that is a sequence of lexemes,
\* each the longest that starts at its place.
RECURSIVE LexPrefix(_, _)
LexPrefix(text, m) ==
  IF LongestLexeme(text, m) = m THEN m ELSE LexPrefix(text, LongestLexeme(text, m))

\* The 1-based position of the first character that no rule accepts;
\* Len(text) + 1 when there is none.
FirstRejected(text) == LexPrefix(text, 0) + 1

C14_ScannerOutcomes ==
  (scanned # NoScan /\ pc \in {"parse", "error"}) =>
    LET bad == FirstRejected(source)
    IN /\ scanned.ok <=> bad = Len(source) + 1
       /\ scanned.ok =>
            /\ tokens = scanned.tokens
            /\ tokens[Len(tokens)] = Tok("EOF")
            /\ \A k \in 1..Len(tokens) - 1 : tokens[k] # Tok("EOF")
       /\ ~scanned.ok =>
            /\ scanned.error = "Unexpected character"
            /\ scanned.char = source[bad]
            /\ tokens = <<>>
            /\ pc = "error"

\* A text whose "." follows a digit and is followed by no digit, rejected
\* at the "." after the number before it was read.
C14_Witness ==
  /\ scanned # NoScan /\ ~scanned.ok /\ scanned.char = "."
  /\ Len(source) >= 3 /\ isDigit(source[1]) /\ source[2] = "." /\ ~isDigit(source[3])

(***************************************************************************)
(* C15: the tokens scanner returns, each but EOF rendered back to its text *)
(* (NUMBER as its decimal value, SYMBOL as its name, keywords and          *)
(* punctuation as their literal) and the texts joined by single blanks,    *)
(* scan to the same tokens.                                                *)
(***************************************************************************)
DigitChar(d) ==
  CASE d = 0 -> "0" [] d = 1 -> "1" [] d = 2 -> "2" [] d = 3 -> "3" [] d = 4 -> "4"
    [] d = 5 -> "5" [] d = 6 -> "6" [] d = 7 -> "7" [] d = 8 -> "8" [] d = 9 -> "9"

\* The characters of the decimal numeral of n >= 0.
RECURSIVE DecimalChars(_)
DecimalChars(n) ==
  IF n < 10 THEN <<DigitChar(n)>> ELSE Append(DecimalChars(n \div 10), DigitChar(n % 10))

\* The characters of a name, looked up among the pieces of text it was
\* taken from.
NameChars(name, text) ==
  LET from == CHOOSE i \in 0..Len(text) - Len(name) : substring(text, i, i + Len(name)) = name
  IN SubSeq(text, from + 1, from + Len(name))

TokenText(token, text) ==
  CASE token.tag = "NUMBER" -> DecimalChars(token.num)
    [] token.tag = "SYMBOL" -> NameChars(token.value, text)
    [] token.tag = "FUN" -> <<"f", "u", "n">>
    [] token.tag = "LET" -> <<"l", "e", "t">>
    [] token.tag = "LPAREN" -> <<"(">>
    [] token.tag = "RPAREN" -> <<")">>
    [] token.tag = "EQUAL" -> <<"=">>
    [] token.tag = "ARROW" -> <<"=", ">">>
    [] token.tag = "SEMICOLON" -> <<";">>
    [] token.tag = "COMMA" -> <<",">>

\* The tokens but the closing EOF as one text.
Render(ts, text) == Join([k \in 1..Len(ts) - 1 |-> TokenText(ts[k], text)], " ")

C15_RenderScan ==
  (pc = "parse" /\ scanned # NoScan /\ scanned.ok) =>
    scanner(Render(tokens, source)) = [ok |-> TRUE, tokens |-> tokens]

\* A scanned text with a number of two digits beside other tokens, whose
\* rendering is another text than the one scanned.
C15_Witness ==
  /\ pc = "parse" /\ scanned # NoScan /\ scanned.ok
  /\ Len(tokens) >= 3
  /\ \E k \in 1..Len(tokens) : tokens[k].tag = "NUMBER" /\ tokens[k].num >= 10
  /\ Render(tokens, source) # source

(***************************************************************************)
(* C16: substitute takes a Let's name out of the map for that Let's body   *)
(* only: when substitute(map, e) returns, map holds the entries it held    *)
(* before, so a Ref(n) outside the body of every Let that binds n is       *)
(* replaced by map[n] also after a Let that binds n was substituted.       *)
(* Stated on the substitute call convertLam makes for a tree that is a     *)
(* lambda.                                                                 *)
(***************************************************************************)
\* The names of the Refs of e that lie outside the body of every Let of e
\* that binds them.
RECURSIVE OpenRefs(_)
OpenRefs(e) ==
  CASE e.tag = "Num" -> {}
    [] e.tag = "Idx" -> {}
    [] e.tag = "Ref" -> {e.data}
    [] e.tag = "App" -> OpenRefs(e.argm)
    [] e.tag = "Cls" -> UNION {OpenRefs(e.body[k]) : k \in 1..Len(e.body)}
    [] e.tag = "Let" -> OpenRefs(e.bind) \cup (OpenRefs(e.body) \ {e.name})

C16_SubstituteFrame ==
  (IsConverted /\ tree.tag = "Lam") =>
    LET fv == free(tree)
        sub == makeContext(impl, EmptyMap, [k \in 1..Len(fv) |-> <<fv[k], EIdx("env1", k - 1)>>])
        inner == convert(impl, next(next(makeState).state).state, sub.proto, tree.body)
        map == IF impl = "proto" THEN inner.proto ELSE sub.map
        done == substitute(map, inner.expr)
    IN /\ prog[Len(prog) - 1].body = done.expr
       /\ done.map = map
       /\ OpenRefs(done.expr) \cap DOMAIN map = {}

(***************************************************************************)
(* C17: codegenCls renders every captured expression under the identity    *)
(* continuation whatever continuation k the Cls is rendered under: the     *)
(* text of Cls(fn, [e1..en]) is k("build_cls(fn, (struct val *[n]){ r1,    *)
(* ..., rn })"), each ri the bare value text of ei (a name or an env       *)
(* index), with no assignment, return or print_val in it.                  *)
(***************************************************************************)
\* The Cls nodes of e, each with the continuation codegenExpr renders it
\* under when e is rendered under build.
RECURSIVE ClsUses(_, _)
ClsUses(e, build) ==
  CASE e.tag = "Cls" -> {[cls |-> e, build |-> build]}
    [] e.tag = "App" -> ClsUses(e.argm, sameReturn)
    [] e.tag = "Let" -> ClsUses(e.bind, bindReturn(e.name)) \cup ClsUses(e.body, build)
    [] OTHER -> {}

ToplBuild(topl) == IF topl.tag = "Decl" THEN exprReturn ELSE callReturn

\* The bare value text of a captured expression.
BareText(e) ==
  CASE e.tag = "Ref" -> <<e.data>>
    [] e.tag = "Idx" -> <<e.data, "[", ToString(e.idx), "]">>

\* The fragments of the captured list that opens at fragment i of text.
CapturedText(text, i) ==
  LET close == CHOOSE j \in i + 1..Len(text) :
                 text[j] = " })" /\ \A m \in i + 1..j - 1 : text[m] # " })"
  IN SubSeq(text, i + 1, close - 1)

C17_CapturedInline ==
  (pc = "done" /\ IsConverted) =>
    /\ \A k \in 1..Len(prog) : \A u \in ClsUses(ToplExpr(prog[k]), ToplBuild(prog[k])) :
         codegenExpr(u.build, u.cls)
           = ApplyBuild(u.build,
               <<"build_cls(", u.cls.prop, ", (struct val *[", ToString(Len(u.cls.body)), "]){ ">>
               \o Join([n \in 1..Len(u.cls.body) |-> BareText(u.cls.body[n])], ", ")
               \o <<" })">>)
    /\ \A i \in 1..Len(code) :
         code[i] = "]){ " =>
           \A m \in 1..Len(CapturedText(code, i)) :
             CapturedText(code, i)[m] \notin {" = ", "return ", "print_val("}

(***************************************************************************)
(* C18: the argument text codegenApp places in f->c.code(f->c.env, <arg>)  *)
(* is one inline value expression, with no local declaration and no        *)
(* assignment statement in it, also when the argument of the application   *)
(* is an application or a let.                                             *)
(***************************************************************************)
\* The arguments of the App nodes of e.
RECURSIVE AppArgs(_)
AppArgs(e) ==
  CASE e.tag = "App" -> {e.argm} \cup AppArgs(e.argm)
    [] e.tag = "Let" -> AppArgs(e.bind) \cup AppArgs(e.body)
    [] e.tag = "Cls" -> UNION {AppArgs(e.body[k]) : k \in 1..Len(e.body)}
    [] OTHER -> {}

C18_ArgumentInline ==
  (pc = "done" /\ IsConverted) =>
    /\ \A k \in 1..Len(prog) : \A argm \in AppArgs(ToplExpr(prog[k])) :
         LET text == codegenExpr(sameReturn, argm)
         IN \A m \in 1..Len(text) : text[m] \notin {"struct val *", " = "}
    /\ \A i \in 1..Len(code) - 1 : code[i] = "->c.env, " => code[i + 1] # "struct val *"

(***************************************************************************)
(* C19: no name the converter generates (the temporary of an application,  *)
(* the env parameter and the name of a hoisted function) equals a variable *)
(* name of the source program, so no source variable is shadowed or        *)
(* replaced by a generated name.                                           *)
(***************************************************************************)
\* The variable names of a tree: the names referenced and the names bound.
RECURSIVE SourceNames(_)
SourceNames(t) ==
  CASE t.tag = "Num" -> {}
    [] t.tag = "Var" -> {t.data}
    [] t.tag = "Lam" -> {t.prop} \cup SourceNames(t.body)
    [] t.tag = "App" -> SourceNames(t.func) \cup SourceNames(t.argm)
    [] t.tag = "Let" -> {t.name} \cup SourceNames(t.bind) \cup SourceNames(t.body)

\* The temporaries of e: the names applications are made through.
RECURSIVE Temporaries(_)
Temporaries(e) ==
  CASE e.tag = "App" -> {e.func} \cup Temporaries(e.argm)
    [] e.tag = "Let" -> Temporaries(e.bind) \cup Temporaries(e.body)
    [] OTHER -> {}

GeneratedNames ==
  UNION {Temporaries(ToplExpr(prog[k])) : k \in 1..Len(prog)}
  \cup {prog[k].name : k \in 1..Len(prog) - 1}
  \cup {prog[k].env : k \in 1..Len(prog) - 1}

C19_GeneratedNamesFresh ==
  IsConverted => GeneratedNames \cap SourceNames(tree) = {}

(***************************************************************************)
(* C20: the captured environment of a closure stays readable for as long   *)
(* as the closure can be applied: a closure that a hoisted function builds *)
(* with build_cls and returns reads, when applied later, the values        *)
(* captured at its construction.  Stated on a run: it ends as the run does *)
(* in which every env read gives the value stored at construction.         *)
(***************************************************************************)
C20_EnvStaysReadable ==
  pc = "ran" =>
    LET kept == execMain(prog, "stale", 0)
    IN run.st = kept.st /\ run.val = kept.val

(***************************************************************************)
(* C21: in every function text emitted by codegenDecl or codegenMain for a *)
(* program produced by convertCls, each local variable name is declared at *)
(* most once, and no local declaration repeats the name of the function's  *)
(* argument parameter or of its environment parameter, also when the       *)
(* source binds one name in two lets or in a let and the enclosing fun.    *)
(* Stated on the emitted text: codegenLet writes every declaration into    *)
(* the one block of its function, so two declarations of a name in a text  *)
(* are a redeclaration.                                                    *)
(***************************************************************************)
\* The texts codegenProg joined with a blank line: the text of a function
\* starts after a separator and runs to the next one or to the end.
Separators == {i \in 1..Len(code) : code[i] = "\n\n"}

TextAfter(s) ==
  LET nxt == {j \in Separators : j > s}
      end == IF nxt = {} THEN Len(code)
             ELSE (CHOOSE j \in nxt : \A l \in nxt : j <= l) - 1
  IN SubSeq(code, s + 1, end)

\* The places where a text declares a local: the lines codegenLet writes
\* as "struct val *", name, ";".
LocalDecls(text) ==
  {i \in 1..Len(text) - 2 : text[i] = "struct val *" /\ text[i + 2] = ";"}

\* The parameters of a text: the env and the argument of a codegenDecl
\* header, none for main.
ParamNames(text) ==
  IF text[1] = "struct val *" THEN {text[4], text[8]} ELSE {}

C21_LocalsDeclaredOnce ==
  (pc = "done" /\ Len(code) > 0) =>
    \A s \in Separators :
      LET text == TextAfter(s)
          decls == LocalDecls(text)
      IN /\ \A i, j \in decls : i # j => text[i + 1] # text[j + 1]
         /\ \A i \in decls : text[i + 1] \notin ParamNames(text)

====
